---- MODULE Spec2Model ----
(***************************************************************************)
(* A model of gkafka/MortgageCalc: loan.Loan (the amortization arithmetic) *)
(* and scenario.Scenario (the repayment simulation).                       *)
(*                                                                         *)
(* Representation.                                                         *)
(*  - Money is an integer number of cents; the code's 0.01 is Epsilon.     *)
(*  - A rate is an integer number of hundredths (rate 0.05 is 5); the      *)
(*    unset default -1.0 is -RateDen.                                      *)
(*  - A date is an integer number of ticks of 1/16 day, counted from the   *)
(*    epoch day 0; 365.25 days are YearTicks ticks, so the step            *)
(*    timedelta(365.25 / frequency) is exact for the frequencies used      *)
(*    (divisors of 5844).  Calendar dates (midnights) are multiples of     *)
(*    TicksPerDay.                                                         *)
(*  - Python's None start date is the empty sequence, a set one is <<d>>.  *)
(*  - A schedule entry is a function from key names to values, as the      *)
(*    dict of the code is; run_scenario adds and deletes keys of it.       *)
(*  - round(x, 2) of a binary float is rounding of the exact quotient to   *)
(*    the nearest cent; where the exact quotient lies halfway between two  *)
(*    cents the float lies on either side of it, and Round gives both      *)
(*    neighbours.  Round, Interest, CalculatePayment and                   *)
(*    CalculatePrincipal are therefore sets of possible results.  With     *)
(*    the rates of Rates and frequency 1 no interest computation meets a   *)
(*    tie; the worked example (rate 0.05, frequency 12) meets some.        *)
(***************************************************************************)
EXTENDS Integers, Sequences, FiniteSets, TLC

VARIABLES
    loan,                \* Loan: _frequency, _length, _payment, _principal, _rate
    start_date,          \* Scenario._start_date
    one_time_payments,   \* Scenario._one_time_payments
    recurring_payments,  \* Scenario._recurring_payments
    pc,                  \* position of run_scenario: idle, loop, returned, raised
    remaining_principal, \* local of run_scenario
    current_sim_date,    \* local of run_scenario
    results,             \* the Results object of the current run
    error,               \* the exception run_scenario ended with, "" if none
    applied_at,          \* history: per one-time entry, the periods it was applied in
    cycles,              \* history: per recurring entry, one flag per eligible cycle
    prev,                \* history: the outcome of the previous run, <<>> if none
    calc                 \* outcome of the last calculate_payment / calculate_principal

vars == <<loan, start_date, one_time_payments, recurring_payments, pc,
          remaining_principal, current_sim_date, results, error,
          applied_at, cycles, prev, calc>>

scenarioVars == <<start_date, one_time_payments, recurring_payments>>
runVars == <<pc, remaining_principal, current_sim_date, results, error,
             applied_at, cycles, prev>>

----------------------------------------------------------------------------
(* Units and program constants *)

Epsilon == 1
RateDen == 100
TicksPerDay == 16
YearTicks == 5844
MaturityYearDays == 365
InitialLast == 1

(* Bounds of the model *)
MaxOneTime == 1
MaxRecurring == 1
MaxPeriods == 11
MaxExamplePeriods == 364
MaxStored == 1200

(* Inputs the callers supply *)
Frequencies == {1}
Lengths == {2}
Rates == {0, 8}
Payments == {50, 80, 300}
Principals == {1000}
StartDays == {0}
OneTimeAmounts == {50, 2000}
OneTimeDays == {0, 1461}
RecurringAmounts == {70, 2000}
RecurringStartDays == {400}
RecurringEndDays == {2000}
Periods == {1, 2}

----------------------------------------------------------------------------
(* Helpers: dicts, sums, rounding *)

HasKey(d, k) == k \in DOMAIN d

SetKey(d, k, v) == [x \in (DOMAIN d) \cup {k} |-> IF x = k THEN v ELSE d[x]]

DelKey(d, k) == [x \in (DOMAIN d) \ {k} |-> d[x]]

Last(s) == s[Len(s)]

\* round(n / d, 2) for n >= 0, d > 0, in cents: the nearest cent, either
\* neighbour on an exact tie
Round(n, d) ==
    LET q == n \div d
        r == n % d
    IN  IF 2 * r < d THEN {q}
        ELSE IF 2 * r > d THEN {q + 1}
        ELSE {q, q + 1}

RECURSIVE Pow(_, _)
Pow(b, n) == IF n = 0 THEN 1 ELSE b * Pow(b, n - 1)

----------------------------------------------------------------------------
(* loan.Loan *)

NewLoan == [frequency |-> 0, length |-> 0, payment |-> 0, principal |-> 0,
            rate |-> 0 - RateDen]

\* Loan.interest: the message of the ValueError it raises, "" if it returns
InterestError(principal, rate, frequency) ==
    IF frequency <= 0 THEN "Frequnecy must be greater than zero."
    ELSE IF principal < 0 THEN "Principal must be greater than or equal to zero."
    ELSE IF rate < 0 THEN "Rate must be greater than or equal to zero."
    ELSE ""

\* Loan.interest: round(principal * (rate / frequency), 2)
Interest(principal, rate, frequency) ==
    Round(principal * rate, RateDen * frequency)

\* Loan._check_required_inputs
CheckRequiredInputs(l, ignore_payment, ignore_principal) ==
    IF l.frequency <= 0 THEN FALSE
    ELSE IF l.length <= 0 THEN FALSE
    ELSE IF l.rate < 0 THEN FALSE
    ELSE IF ~ignore_payment /\ l.payment <= 0 THEN FALSE
    ELSE IF ~ignore_principal /\ l.principal <= 0 THEN FALSE
    ELSE TRUE

\* Loan.calculate_form_factor, as the exact fraction <<numerator, denominator>>:
\* 1 / n when rate = 0; otherwise f * r / (f - 1) with r = rate / frequency and
\* f = (1 + r) ** n, which is (A^n * rate) / ((A^n - D^n) * D) for
\* D = RateDen * frequency and A = D + rate.
CalculateFormFactor(frequency, length, rate) ==
    LET n == length * frequency
        D == RateDen * frequency
        A == D + rate
    IN  IF rate = 0 THEN <<1, n>>
        ELSE <<Pow(A, n) * rate, (Pow(A, n) - Pow(D, n)) * D>>

\* the check calculate_payment makes before it computes
PaymentInputsSet(l) == CheckRequiredInputs(l, TRUE, TRUE)

\* the check calculate_principal makes before it computes
PrincipalInputsSet(l) == CheckRequiredInputs(l, TRUE, TRUE)

\* Loan.calculate_payment, lines 141-144: round(principal * form_factor, 2)
CalculatePayment(l) ==
    LET ff == CalculateFormFactor(l.frequency, l.length, l.rate)
    IN  Round(l.principal * ff[1], ff[2])

\* Loan.calculate_principal, lines 161-164: round(payment / form_factor, 2)
CalculatePrincipal(l) ==
    LET ff == CalculateFormFactor(l.frequency, l.length, l.rate)
    IN  Round(l.payment * ff[2], ff[1])

NoCalc == [op |-> "", at |-> NewLoan, raised |-> "", value |-> 0]

\* the property setters of Loan, called with values that pass their checks
set_frequency(value) ==
    /\ pc = "idle"
    /\ value > 0
    /\ loan' = [loan EXCEPT !.frequency = value]
    /\ UNCHANGED <<scenarioVars, runVars, calc>>

set_length(value) ==
    /\ pc = "idle"
    /\ value > 0
    /\ loan' = [loan EXCEPT !.length = value]
    /\ UNCHANGED <<scenarioVars, runVars, calc>>

set_payment(value) ==
    /\ pc = "idle"
    /\ value >= 0
    /\ loan' = [loan EXCEPT !.payment = value]
    /\ UNCHANGED <<scenarioVars, runVars, calc>>

set_principal(value) ==
    /\ pc = "idle"
    /\ value >= 0
    /\ loan' = [loan EXCEPT !.principal = value]
    /\ UNCHANGED <<scenarioVars, runVars, calc>>

set_rate(value) ==
    /\ pc = "idle"
    /\ value >= 0
    /\ loan' = [loan EXCEPT !.rate = value]
    /\ UNCHANGED <<scenarioVars, runVars, calc>>

\* Loan.calculate_payment(store_result); the model follows stored results up
\* to MaxStored cents
calculate_payment(store_result) ==
    /\ pc = "idle"
    /\ IF ~PaymentInputsSet(loan)
       THEN /\ calc' = [op |-> "calculate_payment", at |-> loan,
                        raised |-> "RuntimeError", value |-> 0]
            /\ UNCHANGED loan
       ELSE \E payment \in CalculatePayment(loan) :
            /\ store_result => payment <= MaxStored
            /\ calc' = [op |-> "calculate_payment", at |-> loan,
                        raised |-> "", value |-> payment]
            /\ loan' = IF store_result
                       THEN [loan EXCEPT !.payment = payment]
                       ELSE loan
    /\ UNCHANGED <<scenarioVars, runVars>>

\* Loan.calculate_principal(store_result); the model follows stored results up
\* to MaxStored cents
calculate_principal(store_result) ==
    /\ pc = "idle"
    /\ IF ~PrincipalInputsSet(loan)
       THEN /\ calc' = [op |-> "calculate_principal", at |-> loan,
                        raised |-> "RuntimeError", value |-> 0]
            /\ UNCHANGED loan
       ELSE \E principal \in CalculatePrincipal(loan) :
            /\ store_result => principal <= MaxStored
            /\ calc' = [op |-> "calculate_principal", at |-> loan,
                        raised |-> "", value |-> principal]
            /\ loan' = IF store_result
                       THEN [loan EXCEPT !.principal = principal]
                       ELSE loan
    /\ UNCHANGED <<scenarioVars, runVars>>

----------------------------------------------------------------------------
(* scenario.Results and scenario.Scenario *)

NewResults == [cumulative_interest |-> <<>>, cumulative_payments |-> <<>>,
               remaining_principal |-> <<>>, total_interest |-> 0,
               total_length |-> 0, total_payment |-> 0]

\* Scenario.start_date setter, called with a well-formed date string
set_start_date(day) ==
    /\ pc = "idle"
    /\ start_date' = <<day * TicksPerDay>>
    /\ UNCHANGED <<loan, one_time_payments, recurring_payments, runVars, calc>>

\* Scenario.add_one_time_payment(payment, date)
add_one_time_payment(payment, day) ==
    /\ pc = "idle"
    /\ Len(one_time_payments) < MaxOneTime
    /\ payment >= 0
    /\ one_time_payments' = Append(one_time_payments,
                                   [date |-> day * TicksPerDay, payment |-> payment])
    /\ UNCHANGED <<loan, start_date, recurring_payments, runVars, calc>>

\* Scenario.add_recurring_payment(payment, start_date, end_date, period);
\* end is <<>> for the default '' and <<day>> otherwise.  With no start date
\* set, line 173 raises TypeError before anything is appended.
add_recurring_payment(payment, start_day, end, period) ==
    /\ pc = "idle"
    /\ Len(recurring_payments) < MaxRecurring
    /\ payment >= 0
    /\ start_date # <<>>
    /\ period > 0
    /\ LET dt_end == IF end # <<>>
                     THEN end[1] * TicksPerDay
                     ELSE start_date[1] + MaturityYearDays * loan.length * TicksPerDay
       IN  recurring_payments' = Append(recurring_payments,
               [end_date |-> dt_end, payment |-> payment, period |-> period,
                start_date |-> start_day * TicksPerDay])
    /\ UNCHANGED <<loan, start_date, one_time_payments, runVars, calc>>

\* what a finished run leaves to its caller
Outcome == [pc |-> pc, error |-> error, results |-> results]

\* run_scenario, lines 209-211: every one-time entry gets its per-run key
MarkOneTime(list) == [i \in DOMAIN list |-> SetKey(list[i], "unprocessed", TRUE)]

MarkRecurringKeep(list) ==
    [i \in DOMAIN list |->
        IF HasKey(list[i], "last") THEN list[i] ELSE SetKey(list[i], "last", InitialLast)]

\* run_scenario, lines 213-215: every recurring entry gets its per-run key
MarkRecurring(list) == [i \in DOMAIN list |-> SetKey(list[i], "last", InitialLast)]

\* run_scenario, lines 256-258: the per-run key is deleted
ClearOneTime(list) == [i \in DOMAIN list |-> DelKey(list[i], "unprocessed")]

\* run_scenario, lines 259-261: the per-run key is deleted
ClearRecurring(list) == [i \in DOMAIN list |-> DelKey(list[i], "last")]

\* run_scenario, line 217: the loop condition
LoopCondition(balance) == balance >= Epsilon

ApplyExtraAdds(balance, amount) == balance + amount

\* run_scenario, lines 224 and 241: an extra payment comes off the balance
ApplyExtra(balance, amount) == balance - amount

OneTimeDueInclusive(d, cur) == d.date <= cur /\ HasKey(d, "unprocessed")

\* run_scenario, line 222: a one-time payment is taken this period
OneTimeDue(d, cur) == d.date < cur /\ HasKey(d, "unprocessed")

\* run_scenario, lines 221-225: st is [list, extra, remaining]
RECURSIVE OneTimePass(_, _, _)
OneTimePass(st, i, cur) ==
    IF i > Len(st.list) THEN st
    ELSE LET d == st.list[i]
         IN  IF OneTimeDue(d, cur)
             THEN OneTimePass([list |-> [st.list EXCEPT ![i] = DelKey(d, "unprocessed")],
                               extra |-> st.extra + d.payment,
                               remaining |-> ApplyExtra(st.remaining, d.payment)],
                              i + 1, cur)
             ELSE OneTimePass(st, i + 1, cur)

PrincipalPaymentUnclamped(standard_payment, interest, balance) ==
    standard_payment - interest

PrincipalPaymentSwapped(standard_payment, interest, balance) ==
    IF interest - standard_payment > balance THEN balance
    ELSE interest - standard_payment

\* run_scenario, lines 228-230: the part of the standard payment that reduces
\* the balance, clamped to the balance
PrincipalPayment(standard_payment, interest, balance) ==
    IF standard_payment - interest > balance THEN balance
    ELSE standard_payment - interest

\* run_scenario, lines 236-237
InWindow(d, cur) == d.start_date <= cur /\ cur <= d.end_date

RecurringDueStrict(d) == d.last > d.period

\* run_scenario, line 239
RecurringDue(d) == d.last >= d.period

\* run_scenario, lines 234-244: st is [list, extra, remaining, applied], where
\* applied collects the indices of the entries whose payment was taken
RECURSIVE RecurringPass(_, _, _)
RecurringPass(st, i, cur) ==
    IF i > Len(st.list) THEN st
    ELSE LET d == st.list[i]
         IN  IF InWindow(d, cur)
             THEN IF RecurringDue(d)
                  THEN RecurringPass([list |-> [st.list EXCEPT ![i] =
                                                    SetKey(d, "last", 1)],
                                      extra |-> st.extra + d.payment,
                                      remaining |-> ApplyExtra(st.remaining,
                                                               d.payment),
                                      applied |-> st.applied \cup {i}],
                                     i + 1, cur)
                  ELSE RecurringPass([st EXCEPT !.list[i] =
                                          SetKey(d, "last", d.last + 1)], i + 1, cur)
             ELSE RecurringPass(st, i + 1, cur)

\* run_scenario, lines 197-215
run_scenario_begin ==
    /\ pc \in {"idle", "returned", "raised"}
    /\ prev' = IF pc = "idle" THEN <<>> ELSE <<Outcome>>
    /\ results' = [NewResults EXCEPT !.cumulative_interest = <<0>>,
                                     !.cumulative_payments = <<0>>,
                                     !.remaining_principal = <<loan.principal>>]
    /\ remaining_principal' = loan.principal
    /\ current_sim_date' = start_date
    /\ one_time_payments' = MarkOneTime(one_time_payments)
    /\ recurring_payments' = MarkRecurring(recurring_payments)
    /\ applied_at' = [i \in DOMAIN one_time_payments |-> <<>>]
    /\ cycles' = [i \in DOMAIN recurring_payments |-> <<>>]
    /\ error' = ""
    /\ pc' = "loop"
    /\ UNCHANGED <<loan, start_date, calc>>

\* run_scenario aborts with an exception before the period's payments: the
\* Results object is dropped with the frame, the schedule keeps its keys
Raise(type) ==
    /\ pc' = "raised"
    /\ error' = type
    /\ UNCHANGED <<one_time_payments, recurring_payments, remaining_principal,
                   current_sim_date, results, applied_at, cycles>>

\* run_scenario, lines 217-251: one iteration of the while loop
run_scenario_iteration(cap) ==
    /\ pc = "loop"
    /\ LoopCondition(remaining_principal)
    /\ results.total_length < cap
    /\ UNCHANGED <<loan, start_date, prev, calc>>
    /\ IF loan.frequency = 0
       THEN Raise("ZeroDivisionError")
       ELSE IF current_sim_date = <<>>
       THEN Raise("TypeError")
       ELSE
        LET cur == current_sim_date[1] + YearTicks \div loan.frequency
            period == results.total_length + 1
            ot == OneTimePass([list |-> one_time_payments, extra |-> 0,
                               remaining |-> remaining_principal], 1, cur)
            msg == InterestError(ot.remaining, loan.rate, loan.frequency)
            taken == [i \in DOMAIN one_time_payments |->
                        IF ot.list[i] # one_time_payments[i]
                        THEN Append(applied_at[i], period) ELSE applied_at[i]]
        IN  IF msg # ""
            THEN /\ pc' = "raised"
                 /\ error' = msg
                 /\ one_time_payments' = ot.list
                 /\ remaining_principal' = ot.remaining
                 /\ current_sim_date' = <<cur>>
                 /\ applied_at' = taken
                 /\ UNCHANGED <<recurring_payments, results, cycles>>
            ELSE \E interest \in Interest(ot.remaining, loan.rate, loan.frequency) :
                 LET principal_payment ==
                         PrincipalPayment(loan.payment, interest, ot.remaining)
                     after == ot.remaining - principal_payment
                     rec == IF LoopCondition(after)
                            THEN RecurringPass([list |-> recurring_payments,
                                                extra |-> ot.extra,
                                                remaining |-> after,
                                                applied |-> {}], 1, cur)
                            ELSE [list |-> recurring_payments, extra |-> ot.extra,
                                  remaining |-> after, applied |-> {}]
                 IN  /\ pc' = "loop"
                     /\ error' = ""
                     /\ one_time_payments' = ot.list
                     /\ recurring_payments' = rec.list
                     /\ remaining_principal' = rec.remaining
                     /\ current_sim_date' = <<cur>>
                     /\ applied_at' = taken
                     /\ cycles' = [j \in DOMAIN recurring_payments |->
                            IF LoopCondition(after)
                               /\ InWindow(recurring_payments[j], cur)
                            THEN Append(cycles[j], j \in rec.applied)
                            ELSE cycles[j]]
                     /\ results' = [results EXCEPT
                            !.cumulative_interest = Append(@, Last(@) + interest),
                            !.cumulative_payments = Append(@, Last(@) + loan.payment
                                                              + rec.extra),
                            !.remaining_principal = Append(@, rec.remaining),
                            !.total_length = @ + 1]

\* run_scenario, lines 253-263: the loop has ended
run_scenario_return ==
    /\ pc = "loop"
    /\ ~LoopCondition(remaining_principal)
    /\ results' = [results EXCEPT
                       !.total_interest = Last(results.cumulative_interest),
                       !.total_payment = Last(results.cumulative_payments)]
    /\ one_time_payments' = ClearOneTime(one_time_payments)
    /\ recurring_payments' = ClearRecurring(recurring_payments)
    /\ pc' = "returned"
    /\ UNCHANGED <<loan, start_date, remaining_principal, current_sim_date, error,
                   applied_at, cycles, prev, calc>>

----------------------------------------------------------------------------
(* Specifications *)

\* Scenario(Loan()): nothing set, empty schedule
Init ==
    /\ loan = NewLoan
    /\ start_date = <<>>
    /\ one_time_payments = <<>>
    /\ recurring_payments = <<>>
    /\ pc = "idle"
    /\ remaining_principal = 0
    /\ current_sim_date = <<>>
    /\ results = NewResults
    /\ error = ""
    /\ applied_at = <<>>
    /\ cycles = <<>>
    /\ prev = <<>>
    /\ calc = NoCalc

RecurringEnds == {<<>>} \cup {<<d>> : d \in RecurringEndDays}

SetLoan ==
    \/ \E v \in Frequencies : set_frequency(v)
    \/ \E v \in Lengths : set_length(v)
    \/ \E v \in Payments : set_payment(v)
    \/ \E v \in Principals : set_principal(v)
    \/ \E v \in Rates : set_rate(v)

Next ==
    \/ SetLoan
    \/ \E v \in StartDays : set_start_date(v)
    \/ \E a \in OneTimeAmounts, d \in OneTimeDays : add_one_time_payment(a, d)
    \/ \E a \in RecurringAmounts, s \in RecurringStartDays, e \in RecurringEnds,
          p \in Periods : add_recurring_payment(a, s, e, p)
    \/ run_scenario_begin
    \/ run_scenario_iteration(MaxPeriods)
    \/ run_scenario_return

Spec == Init /\ [][Next]_vars

\* the Loan alone: its setters and its two derivations
NextLoan ==
    \/ SetLoan
    \/ \E b \in BOOLEAN : calculate_payment(b)
    \/ \E b \in BOOLEAN : calculate_principal(b)

SpecLoan == Init /\ [][NextLoan]_vars

\* the worked example: frequency 12, length 30, rate 0.05, principal 300000,
\* payment 1610.46, start date set, no extra payments
ExampleLoan == [frequency |-> 12, length |-> 30, payment |-> 161046,
                principal |-> 30000000, rate |-> 5]

InitExample ==
    /\ loan = ExampleLoan
    /\ start_date = <<0>>
    /\ one_time_payments = <<>>
    /\ recurring_payments = <<>>
    /\ pc = "idle"
    /\ remaining_principal = 0
    /\ current_sim_date = <<>>
    /\ results = NewResults
    /\ error = ""
    /\ applied_at = <<>>
    /\ cycles = <<>>
    /\ prev = <<>>
    /\ calc = NoCalc

NextExample ==
    \/ run_scenario_begin
    \/ run_scenario_iteration(MaxExamplePeriods)
    \/ run_scenario_return

SpecExample == InitExample /\ [][NextExample]_vars

----------------------------------------------------------------------------
(* Properties *)

\* run_scenario has been entered: the histories cover the current schedule
Running == pc \in {"loop", "returned", "raised"}

\* the simulated date of period k of the current run, in ticks
SimDate(k) == start_date[1] + k * (YearTicks \div loan.frequency)

\* the recurring entries with period 2
EveryOther == {j \in DOMAIN recurring_payments : recurring_payments[j].period = 2}

\* C1 as stated: a recurring payment with period 2 is applied on the 1st, 3rd,
\* 5th, ... eligible cycle of the run, so the first eligible cycle is not skipped.
C1_AppliedOnOddEligibleCycles ==
    pc \in {"loop", "returned"} =>
        \A j \in EveryOther : \A k \in 1..Len(cycles[j]) :
            cycles[j][k] = (k % 2 = 1)

\* C1 amended: a recurring payment with period 2 is applied on the 2nd, 4th,
\* 6th, ... eligible cycle of the run and on no other; the first eligible cycle
\* is skipped.
C1_AppliedOnEvenEligibleCycles ==
    Running =>
        \A j \in EveryOther : \A k \in 1..Len(cycles[j]) :
            cycles[j][k] = (k % 2 = 0)

\* a period-2 payment that has seen four eligible cycles and was applied on the
\* second and the fourth
C1_Witness ==
    /\ Running
    /\ \E j \in EveryOther :
          /\ Len(cycles[j]) >= 4
          /\ ~cycles[j][1] /\ cycles[j][2] /\ ~cycles[j][3] /\ cycles[j][4]
          /\ recurring_payments[j].payment > 0

\* C6 as stated: a one-time payment is applied at most once per run, and when
\* applied it is applied in the first period whose date is on or after its date,
\* a period dated exactly on the event's date included.
C6_AppliedFirstPeriodOnOrAfter ==
    pc \in {"loop", "returned"} =>
        \A i \in DOMAIN one_time_payments :
            /\ Len(applied_at[i]) <= 1
            /\ applied_at[i] # <<>> =>
                  LET k == applied_at[i][1]
                  IN  /\ one_time_payments[i].date <= SimDate(k)
                      /\ k > 1 => one_time_payments[i].date > SimDate(k - 1)

\* C6 amended: a one-time payment is applied at most once per run, and it is
\* applied in the first simulated period whose date is strictly after its date:
\* never in a period dated on or before it, and in every run that reaches a
\* period dated after it.
C6_AppliedFirstPeriodStrictlyAfter ==
    Running =>
        \A i \in DOMAIN one_time_payments :
            /\ Len(applied_at[i]) <= 1
            /\ applied_at[i] # <<>> =>
                  LET k == applied_at[i][1]
                  IN  /\ one_time_payments[i].date < SimDate(k)
                      /\ k > 1 => one_time_payments[i].date >= SimDate(k - 1)
            /\ \A k \in 1..results.total_length :
                  one_time_payments[i].date < SimDate(k) =>
                      (applied_at[i] # <<>> /\ applied_at[i][1] <= k)

\* a one-time payment dated exactly on the date of period 4, taken in period 5
C6_Witness ==
    /\ Running
    /\ \E i \in DOMAIN one_time_payments :
          /\ applied_at[i] = <<5>>
          /\ one_time_payments[i].date = SimDate(4)
          /\ results.total_length >= 5

\* every loan term has been set to a positive value (rate: non-negative)
LoanTermsSet == CheckRequiredInputs(loan, FALSE, FALSE)

NonIncreasing(seq) == \A i \in 2..Len(seq) : seq[i] <= seq[i - 1]

NonDecreasing(seq) == \A i \in 2..Len(seq) : seq[i] >= seq[i - 1]

\* the standard payment is at least the interest of one period on the
\* starting principal
StandardCoversInterest ==
    /\ loan.frequency > 0
    /\ loan.rate >= 0
    /\ \A i \in Interest(loan.principal, loan.rate, loan.frequency) : loan.payment >= i

\* C2 as stated: for every run_scenario that returns, whatever the valid loan
\* terms and the schedule, the recorded remaining_principal sequence is
\* non-increasing and its last entry is below 0.01.
C2_NonIncreasingToZero ==
    (pc = "returned" /\ LoanTermsSet) =>
        /\ NonIncreasing(results.remaining_principal)
        /\ Last(results.remaining_principal) < Epsilon

\* C2 amended: for every run_scenario that returns, the last recorded
\* remaining_principal is below 0.01; the sequence is non-increasing when the
\* standard payment is at least one period's interest on the starting principal.
C2_NonIncreasingWhenPaymentCoversInterest ==
    pc = "returned" =>
        /\ Last(results.remaining_principal) < Epsilon
        /\ (results.total_length > 0 /\ StandardCoversInterest)
              => NonIncreasing(results.remaining_principal)

\* a returned run of several periods with interest, a one-time and a recurring
\* payment taken, and a payment that covers the interest
C2_Witness ==
    /\ pc = "returned"
    /\ results.total_length >= 3
    /\ StandardCoversInterest
    /\ results.total_interest > 0
    /\ \E i \in DOMAIN applied_at : applied_at[i] # <<>>
    /\ \E j \in DOMAIN cycles : \E k \in 1..Len(cycles[j]) : cycles[j][k]

\* no schedule entry carries a per-run key
NoTransientKeys ==
    /\ \A i \in DOMAIN one_time_payments : ~HasKey(one_time_payments[i], "unprocessed")
    /\ \A j \in DOMAIN recurring_payments : ~HasKey(recurring_payments[j], "last")

\* C5: a second run_scenario on the same Scenario ends as the first did, with
\* identical sequences and totals, and after each completed run no schedule
\* entry carries the keys 'unprocessed' or 'last'.
C5_RerunIdentical ==
    /\ (pc \in {"returned", "raised"} /\ prev # <<>>) => Outcome = prev[1]
    /\ pc = "returned" => NoTransientKeys

\* a second completed run over a schedule whose one-time and recurring
\* payments were both taken
C5_Witness ==
    /\ pc = "returned"
    /\ prev # <<>>
    /\ prev[1].pc = "returned"
    /\ results.total_length >= 3
    /\ \E i \in DOMAIN applied_at : applied_at[i] # <<>>
    /\ \E j \in DOMAIN cycles :
          /\ recurring_payments[j].period = 2
          /\ \E k \in 1..Len(cycles[j]) : cycles[j][k]

\* the standard payment is at most the interest computed in the first simulated period
PaymentWithinFirstInterest ==
    /\ results.total_length >= 1
    /\ loan.payment <= results.cumulative_interest[2]

\* C8 as stated: if the standard payment is at most the first period's
\* interest, remaining_principal never decreases and the loop never ends,
\* whatever the schedule of extra payments.
C8_NeverConvergesAnySchedule ==
    (pc \in {"loop", "returned"} /\ LoanTermsSet /\ PaymentWithinFirstInterest) =>
        /\ pc = "loop"
        /\ LoopCondition(remaining_principal)
        /\ \A i \in 3..Len(results.remaining_principal) :
              results.remaining_principal[i] >= results.remaining_principal[i - 1]

\* C8 amended: if the standard payment is at most the first period's interest
\* and the schedule holds no extra payments, remaining_principal never
\* decreases in any period and the loop condition never becomes false:
\* run_scenario does not return.
C8_NeverConvergesEmptySchedule ==
    (/\ Running
     /\ PaymentWithinFirstInterest
     /\ one_time_payments = <<>>
     /\ recurring_payments = <<>>) =>
        /\ pc = "loop"
        /\ LoopCondition(remaining_principal)
        /\ NonDecreasing(results.remaining_principal)

\* a run without extra payments, five periods in, whose positive standard
\* payment is below the first period's interest
C8_Witness ==
    /\ pc = "loop"
    /\ one_time_payments = <<>>
    /\ recurring_payments = <<>>
    /\ results.total_length >= 5
    /\ loan.payment > 0
    /\ loan.payment <= results.cumulative_interest[2]
    /\ Last(results.remaining_principal) >= results.remaining_principal[1]

\* a required input of run_scenario is not validly set
RequiredInputUnset == start_date = <<>> \/ ~LoanTermsSet

\* C3: run_scenario invoked with a required input unset fails with the
\* precondition error (RuntimeError, as the Loan's derivations raise), and no
\* schedule entry has gained 'unprocessed' or 'last' when it fails.
C3_UnsetInputsRejectedBeforeMutation ==
    (pc \in {"returned", "raised"} /\ RequiredInputUnset) =>
        /\ pc = "raised"
        /\ error = "RuntimeError"
        /\ NoTransientKeys

\* C4: calculate_payment raises RuntimeError when frequency, length, rate or
\* the principal is unset, and calculate_principal when frequency, length, rate
\* or the payment is unset; neither returns a number then.
C4_DerivationsRejectUnsetInputs ==
    /\ (calc.op = "calculate_payment" /\ ~CheckRequiredInputs(calc.at, TRUE, FALSE))
          => calc.raised = "RuntimeError"
    /\ (calc.op = "calculate_principal" /\ ~CheckRequiredInputs(calc.at, FALSE, TRUE))
          => calc.raised = "RuntimeError"

\* C9: the balance never goes negative: every recorded remaining_principal is
\* >= 0 and run_scenario never hands Loan.interest a negative balance.
C9_BalanceNeverNegative ==
    (Running /\ LoanTermsSet /\ start_date # <<>>) =>
        /\ \A i \in 1..Len(results.remaining_principal) :
              results.remaining_principal[i] >= 0
        /\ error # "Principal must be greater than or equal to zero."

\* C10: in every recorded period the money paid equals the interest charged
\* plus the reduction of the balance, the final clamped period included.
C10_PaymentsAccountedFor ==
    (Running /\ LoanTermsSet /\ start_date # <<>>) =>
        \A i \in 2..Len(results.cumulative_payments) :
            results.cumulative_payments[i] - results.cumulative_payments[i - 1]
              = (results.cumulative_interest[i] - results.cumulative_interest[i - 1])
                + (results.remaining_principal[i - 1] - results.remaining_principal[i])

\* C7 as stated: the example loan records exactly 360 periods, with
\* remaining_principal[360] below 0.01.
C7_ExampleTakes360Periods ==
    pc = "returned" =>
        /\ results.total_length = 360
        /\ results.remaining_principal[361] < Epsilon

\* C7 amended: the example loan records exactly 361 periods: after 360
\* periods remaining_principal is still positive (a few dollars, at least 0.01),
\* and remaining_principal[361] is 0.
C7_ExampleTakes361Periods ==
    /\ results.total_length <= 361
    /\ pc = "returned" =>
          /\ results.total_length = 361
          /\ results.remaining_principal[361] >= Epsilon
          /\ results.remaining_principal[361] < 1000
          /\ results.remaining_principal[362] = 0

\* the example run has returned after its 361st period
C7_Witness ==
    /\ pc = "returned"
    /\ loan = ExampleLoan
    /\ results.total_length = 361
    /\ Len(results.remaining_principal) = 362

====
